---- MODULE Spec2Model ----
(***************************************************************************)
(* AutoDeploy AI: the wizard of App (App.tsx) and the repository           *)
(* synchronisation engine pushFilesToRepo (services/githubService.ts).     *)
(*                                                                         *)
(* A state is the React state of App, the position of the one handler      *)
(* that is awaiting a remote answer (pc), the locals of the running        *)
(* pushFilesToRepo call, and the remote host's repositories.  Every action *)
(* is the code that runs between two awaits: it receives the answer of the *)
(* call that was in flight and runs on to the next await.                  *)
(*                                                                         *)
(* A remote call answers "ok", "http" (a response whose status is not ok)  *)
(* or "net" (fetch rejects); the ref lookup may also answer "notfound".    *)
(* A call that does not answer "ok" has had no effect on the remote host.  *)
(* The text of DeploymentStatus.message is not modelled.  Under Spec the    *)
(* wizard starts a handler only when no other handler is awaiting an       *)
(* answer; SpecHandlers lifts that, SpecDeploy adds other writers of the   *)
(* repository, SpecRunFair is the deployment whose requests all settle,    *)
(* SpecTemplate, SpecReview and SpecMerge are the review step's view,      *)
(* SpecSelect is the folder selector.                                      *)
(***************************************************************************)
EXTENDS Integers, Sequences, FiniteSets, TLC

\* ------------------------------------------------------------- bounds
MaxFiles == 2
MaxExternal == 2
MaxStale == 1
MaxVars == 2
MaxEdits == 2

\* ---------------------------------------------------------- constants
SizeCeiling == 1048576

ProjectNames == {"p1", "p2"}

\* The files a picked folder can hold: a regular file, a dependency-cache
\* file, a file of more than 1 MiB, and a file of exactly 1 MiB that has
\* the path of a generated artifact.
FileUniverse ==
    { [path |-> "src/index.js",      size |-> 120],
      [path |-> "node_modules/m.js", size |-> 120],
      [path |-> "big.bin",           size |-> SizeCeiling + 1],
      [path |-> "Dockerfile",        size |-> SizeCeiling] }

\* A picked folder holds each path once.
FileLists ==
    UNION { { s \in [1..n -> FileUniverse] :
                \A i, j \in 1..n : s[i].path = s[j].path => i = j } :
            n \in 0..MaxFiles }

\* The files of the folders a deployment is started with: a regular file
\* that the repository's first commit holds too, one file for each test
\* of the loop (the second under a directory whose name ends in .git), and
\* the file with the path of a generated artifact.
DeployFileUniverse ==
    { [path |-> "README.md",         size |-> 120],
      [path |-> "node_modules/m.js", size |-> 120],
      [path |-> "my.git/config",     size |-> 120],
      [path |-> "app/.next/x.js",    size |-> 120],
      [path |-> "big.bin",           size |-> SizeCeiling + 1],
      [path |-> "Dockerfile",        size |-> SizeCeiling] }

DeployFileLists ==
    UNION { { s \in [1..n -> DeployFileUniverse] :
                \A i, j \in 1..n : s[i].path = s[j].path => i = j } :
            n \in 0..MaxFiles }

\* ------------------------------------------------------------ helpers
\* String.prototype.includes
Includes(s, t) ==
    \E i \in 1..(Len(s) - Len(t) + 1) : SubSeq(s, i, i + Len(t) - 1) = t

Last(s) == s[Len(s)]

\* The loop's two `continue` tests.
ExcludedPathCacheOnly(path) == Includes(path, "node_modules/")
ExcludedPath(path) ==
    Includes(path, "node_modules/") \/ Includes(path, ".git/") \/ Includes(path, ".next/")

TooBig(size) == size > SizeCeiling

Skipped(file) == ExcludedPath(file.path) \/ TooBig(file.size)

\* 30 + Math.floor((processed / totalFiles) * 40), with 1 <= processed <=
\* totalFiles; the quotient is taken exactly.
ProgressPercentWide(processed, totalFiles) == 30 + ((processed * 60) \div totalFiles)
ProgressPercent(processed, totalFiles) == 30 + ((processed * 40) \div totalFiles)

\* The onProgress callback handleDeploy passes to pushFilesToRepo.
StatusOfProgress(prog) ==
    [step |-> IF prog < 80 THEN "uploading_blobs" ELSE "committing",
     progress |-> prog, repoUrl |-> "undefined"]

\* The messages of the errors the code throws, and of the ones the runtime
\* throws for it: a rejected fetch, and reading .sha of commitData.tree when
\* the commit lookup answered with an error body.
BlobError == "Failed to create blob"
TreeError == "Failed to create tree"
CommitError == "Failed to create commit"
RefError == "Failed to update ref"
FetchRejected == "Failed to fetch"
TreeOfUndefined == "Cannot read properties of undefined (reading 'sha')"

\* What a failed fetch-and-check throws: the rejection of fetch itself, or
\* the Error the code builds after testing res.ok.
Thrown(ans, message) == IF ans = "net" THEN FetchRejected ELSE message

\* The message pushFilesToRepo has for a remote call that answered with a
\* status that is not ok.
ErrorMessage(at) ==
    CASE at = "getCommit" -> TreeOfUndefined
      [] at \in {"blobDockerfile", "blobCompose", "blobFile"} -> BlobError
      [] at = "tree" -> TreeError
      [] at = "commit" -> CommitError
      [] at = "ref" -> RefError
      [] OTHER -> FetchRejected

\* The tree of a commit of the remote host.
TreeOfCommit(sha) == "tree_" \o sha

\* ------------------------------------- AnalysisView: the templater
\* The entries an unvalidated analysis result can hold (JSON.parse ... as
\* AIAnalysisResult): a key twice, with and without a value; a key of the
\* standard list; a value of two lines.  value "" stands for an empty or
\* absent value, defaultValue "undefined" for an absent one.
EnvEntries ==
    { [key |-> "DB_URL",     value |-> "",             defaultValue |-> "postgres://db"],
      [key |-> "DB_URL",     value |-> "v1",           defaultValue |-> "undefined"],
      [key |-> "MODEL_NAME", value |-> "",             defaultValue |-> "gpt"],
      [key |-> "API_TOKEN",  value |-> "s3cret",       defaultValue |-> ""],
      [key |-> "MOTD",       value |-> "line1\nline2", defaultValue |-> "undefined"] }

EnvLists == UNION { [1..n -> EnvEntries] : n \in 0..MaxVars }

\* Build files: with WORKDIR, with FROM only, with neither, with ENV
\* lines to drop (one indented), and with two stages.
BuildFiles ==
    { "FROM node:18\nWORKDIR /app\nCOPY . .\nCMD npm start",
      "FROM node:18\nCOPY . .\nCMD npm start",
      "COPY . .\nCMD npm start",
      "FROM node:18\nENV OLD=\"1\"\nWORKDIR /app\n  ENV INDENTED=2\nCMD npm start",
      "FROM node:18 AS build\nWORKDIR /src\nFROM nginx\nWORKDIR /srv" }

Ports == {3000, 8000}

Char(s, i) == SubSeq(s, i, i)

\* String.prototype.split('\n')
RECURSIVE SplitLines(_)
SplitLines(s) ==
    IF \E i \in 1..Len(s) : Char(s, i) = "\n"
      THEN LET i == CHOOSE k \in 1..Len(s) :
                        Char(s, k) = "\n" /\ \A m \in 1..(k - 1) : Char(s, m) # "\n"
           IN  <<SubSeq(s, 1, i - 1)>> \o SplitLines(SubSeq(s, i + 1, Len(s)))
      ELSE <<s>>

\* Array.prototype.join('\n')
RECURSIVE JoinLines(_)
JoinLines(lines) ==
    IF Len(lines) = 0 THEN ""
    ELSE IF Len(lines) = 1 THEN lines[1]
    ELSE lines[1] \o "\n" \o JoinLines(Tail(lines))

\* String.prototype.trim, for the white space a line can hold.
Whitespace == {" ", "\t", "\r"}

Trim(s) ==
    LET ink == {i \in 1..Len(s) : Char(s, i) \notin Whitespace}
    IN  IF ink = {} THEN ""
        ELSE SubSeq(s, CHOOSE i \in ink : \A k \in ink : i <= k,
                       CHOOSE i \in ink : \A k \in ink : i >= k)

StartsWith(s, prefix) == Len(s) >= Len(prefix) /\ SubSeq(s, 1, Len(prefix)) = prefix

\* l.trim().startsWith('ENV ')
IsEnvLine(l) == StartsWith(Trim(l), "ENV ")

\* The last line that includes word instead of the first.
FindIndexLast(lines, word) ==
    IF \E i \in 1..Len(lines) : Includes(lines[i], word)
      THEN CHOOSE i \in 1..Len(lines) :
               Includes(lines[i], word) /\ \A k \in (i + 1)..Len(lines) : ~Includes(lines[k], word)
      ELSE 0

\* lines.findIndex(l => l.includes(word)), counted from 1; 0 for -1.
FindIndex(lines, word) ==
    IF \E i \in 1..Len(lines) : Includes(lines[i], word)
      THEN CHOOSE i \in 1..Len(lines) :
               Includes(lines[i], word) /\ \A k \in 1..(i - 1) : ~Includes(lines[k], word)
      ELSE 0

\* `ENV ${v.key}="${v.value || ''}"`
EnvLineWithDefault(v) ==
    "ENV " \o v.key \o "=\"" \o
        (IF v.value # "" THEN v.value
         ELSE IF v.defaultValue # "undefined" THEN v.defaultValue ELSE "") \o "\""
EnvLine(v) == "ENV " \o v.key \o "=\"" \o v.value \o "\""

\* cleanDockerfile (lines 30-45); splice(insertIdx + 1, 0, ...envLines)
\* inserts after the line findIndex found, at the top when it found none.
cleanDockerfile(text, list) ==
    LET lines == SelectSeq(SplitLines(text), LAMBDA l : ~IsEnvLine(l))
        workdir == FindIndex(lines, "WORKDIR")
        insertIdx == IF workdir = 0 THEN FindIndex(lines, "FROM") ELSE workdir
        envLines == [i \in 1..Len(list) |-> EnvLine(list[i])]
    IN  JoinLines(SubSeq(lines, 1, insertIdx) \o envLines
                    \o SubSeq(lines, insertIdx + 1, Len(lines)))

\* envVars.filter((v, i, a) => a.findIndex(t => t.key === v.key) === i)
uniqueEnvsAll(list) == list
uniqueEnvs(list) ==
    LET first == SelectSeq([i \in 1..Len(list) |-> i],
                           LAMBDA i : \A k \in 1..(i - 1) : list[k].key # list[i].key)
    IN  [n \in 1..Len(first) |-> list[first[n]]]

\* `      - ${env.key}=\${${env.key}}`
ComposeEnvLineWithValue(env) == "      - " \o env.key \o "=" \o env.value
ComposeEnvLine(env) == "      - " \o env.key \o "=${" \o env.key \o "}"

\* dockerComposeContent (lines 94-115)
dockerComposeContent(list, p) ==
    LET unique == uniqueEnvs(list)
        envBlock == JoinLines([i \in 1..Len(unique) |-> ComposeEnvLine(unique[i])])
    IN  "version: '3.8'\nservices:\n  app:\n    build: .\n    restart: always\n"
        \o "    expose:\n      - \"" \o ToString(p) \o "\"\n"
        \o "    networks:\n      - coolify\n    environment:\n"
        \o (IF envBlock = "" THEN "      # No environment variables defined" ELSE envBlock)
        \o "\n\nnetworks:\n  coolify:\n    external: true\n"

\* STANDARD_LLM_VARS (lines 20-27); none has a defaultValue.
STANDARD_LLM_VARS ==
    << [key |-> "LLM_PROVIDER",       value |-> "openrouter",   defaultValue |-> "undefined"],
       [key |-> "OPENROUTER_API_KEY", value |-> "",             defaultValue |-> "undefined"],
       [key |-> "GOOGLE_API_KEY",     value |-> "",             defaultValue |-> "undefined"],
       [key |-> "BASE_URL",           value |-> "https://openrouter.ai/api/v1",
                                                                 defaultValue |-> "undefined"],
       [key |-> "MODEL_NAME",         value |-> "meta-llama/llama-3.1-8b-instruct",
                                                                 defaultValue |-> "undefined"],
       [key |-> "HOST",               value |-> "0.0.0.0",      defaultValue |-> "undefined"] >>

\* The mount effect's forEach over the first n standard variables: one
\* that is missing from the seeded list is pushed, one that is there with
\* an empty value takes the standard value if that is not empty.
mergeStandardAppendOnly(seeded, n) ==
    seeded \o SelectSeq(SubSeq(STANDARD_LLM_VARS, 1, n),
                        LAMBDA s : \A i \in 1..Len(seeded) : seeded[i].key # s.key)
RECURSIVE mergeStandard(_, _)
mergeStandard(seeded, n) ==
    IF n = 0 THEN seeded
    ELSE LET newVars == mergeStandard(seeded, n - 1)
             stdVar == STANDARD_LLM_VARS[n]
             at == {i \in 1..Len(newVars) : newVars[i].key = stdVar.key}
             idx == CHOOSE i \in at : \A k \in at : i <= k
         IN  IF \A i \in 1..Len(seeded) : seeded[i].key # stdVar.key
               THEN Append(newVars, stdVar)
               ELSE IF newVars[idx].value = "" /\ stdVar.value # ""
                 THEN [newVars EXCEPT ![idx].value = stdVar.value]
                 ELSE newVars

priority == <<"HOST", "PORT", "LLM_PROVIDER", "OPENROUTER_API_KEY", "GOOGLE_API_KEY",
              "BASE_URL", "MODEL_NAME">>

\* priority.indexOf(key), counted from 1; 0 for -1.
PriorityIndex(key) ==
    IF \E i \in 1..Len(priority) : priority[i] = key
      THEN CHOOSE i \in 1..Len(priority) : priority[i] = key
      ELSE 0

\* The collation order of the characters of a key.
Alphabet == "_0123456789ABCDEFGHIJKLMNOPQRSTUVWXYZ"

CharRank(c) ==
    IF \E i \in 1..Len(Alphabet) : Char(Alphabet, i) = c
      THEN CHOOSE i \in 1..Len(Alphabet) : Char(Alphabet, i) = c
      ELSE 0

\* a.localeCompare(b) < 0
RECURSIVE LocaleBefore(_, _)
LocaleBefore(a, b) ==
    IF b = "" THEN FALSE
    ELSE IF a = "" THEN TRUE
    ELSE IF CharRank(Char(a, 1)) # CharRank(Char(b, 1))
      THEN CharRank(Char(a, 1)) < CharRank(Char(b, 1))
      ELSE LocaleBefore(SubSeq(a, 2, Len(a)), SubSeq(b, 2, Len(b)))

\* The sort's comparator is negative for (a, b).
SortsBefore(a, b) ==
    LET idxA == PriorityIndex(a.key)
        idxB == PriorityIndex(b.key)
    IN  IF idxA # 0 /\ idxB # 0 THEN idxA < idxB
        ELSE IF idxA # 0 THEN TRUE
        ELSE IF idxB # 0 THEN FALSE
        ELSE LocaleBefore(a.key, b.key)

sortVarsUnsorted(list) == list
\* Array.prototype.sort with that comparator: stable.
RECURSIVE sortVars(_)
sortVars(list) ==
    IF list = <<>> THEN <<>>
    ELSE LET front == sortVars(SubSeq(list, 1, Len(list) - 1))
             x == list[Len(list)]
             later == {i \in 1..Len(front) : SortsBefore(x, front[i])}
             at == IF later = {} THEN Len(front) + 1
                   ELSE CHOOSE i \in later : \A k \in later : i <= k
         IN  SubSeq(front, 1, at - 1) \o <<x>> \o SubSeq(front, at, Len(front))

\* newVarKey.toUpperCase().replace(/[^A-Z0-9_]/g, '_')
LowerCase == "abcdefghijklmnopqrstuvwxyz"
UpperCase == "ABCDEFGHIJKLMNOPQRSTUVWXYZ"

SanitizeChar(c) ==
    IF \E i \in 1..Len(LowerCase) : Char(LowerCase, i) = c
      THEN Char(UpperCase, CHOOSE i \in 1..Len(LowerCase) : Char(LowerCase, i) = c)
      ELSE IF CharRank(c) # 0 THEN c ELSE "_"

RECURSIVE SanitizeKey(_)
SanitizeKey(s) ==
    IF s = "" THEN "" ELSE SanitizeChar(Char(s, 1)) \o SanitizeKey(SubSeq(s, 2, Len(s)))

\* The keys the list UI hides.
HiddenKeys == {"HOST", "PORT", "CI"}

VARIABLES
    apiKeySet,        \* process.env.API_KEY is non-empty
    step,             \* App: the wizard's Step
    error,            \* App: error, "null" or a message
    deployStatus,     \* App: DeploymentStatus without its message
    analysis,         \* App: "null" or the analysis result's projectName
    files,            \* App: the selected FileEntry list
    pc,               \* the await the running handler is suspended at
    repo,             \* pushFilesToRepo: the repository of the run
    parentCommitSha,  \* pushFilesToRepo local
    baseTreeSha,      \* pushFilesToRepo local
    treeItems,        \* pushFilesToRepo local
    processed,        \* pushFilesToRepo local
    fileIdx,          \* pushFilesToRepo: position of the for-of loop
    fileState,        \* per file: "pending", "skipped", "uploaded", "failed"
    treeArgs,         \* body of the tree-creation request, once sent
    commitArgs,       \* body of the commit-creation request, once sent
    thrown,           \* message of the error pushFilesToRepo threw
    failedAt,         \* the remote call whose failure made it throw
    reported,         \* the percents passed to onProgress in this run
    calls,            \* the remote calls of this run, with their answers
    refAtStart,       \* the branch pointer when the run started
    moved,            \* another writer moved the branch after the run read it
    remote,           \* per repository name: "norepo", or its main ref
    stale,            \* handleConfigSubmit calls of a repeated submit, awaiting
    background,       \* repositories of earlier runs that are still in flight
    view,             \* AnalysisView: "closed", "mounting", "open", "deployed"
    envVars,          \* AnalysisView: editableResult.envVars
    dockerfile,       \* AnalysisView: editableResult.dockerfile
    port,             \* AnalysisView: editableResult.port
    edits,            \* AnalysisView: the user's edits so far
    deployArgs,       \* what the Deploy button handed to onDeploy
    picked,           \* FolderSelector: the files of the input element
    timer             \* FolderSelector: "none", or the entries its timeout holds

appVars == <<apiKeySet, step, error, deployStatus, analysis, files>>
runVars == <<repo, parentCommitSha, baseTreeSha, treeItems, processed, fileIdx,
             fileState, treeArgs, commitArgs, thrown, failedAt, reported, calls,
             refAtStart, moved>>
handlerVars == <<stale, background>>
reviewVars == <<view, envVars, dockerfile, port, edits, deployArgs>>
selectorVars == <<picked, timer>>
auxVars == <<handlerVars, reviewVars, selectorVars>>
vars == <<appVars, pc, runVars, remote, auxVars>>

NoArgs == [sent |-> FALSE]

\* No pushFilesToRepo call is running.
NoRun ==
    /\ repo = "none"
    /\ parentCommitSha = "null"
    /\ baseTreeSha = "null"
    /\ treeItems = <<>>
    /\ processed = 0
    /\ fileIdx = 0
    /\ fileState = <<>>
    /\ treeArgs = NoArgs
    /\ commitArgs = NoArgs
    /\ thrown = "none"
    /\ failedAt = "none"
    /\ reported = <<>>
    /\ calls = <<>>
    /\ refAtStart = "none"
    /\ moved = FALSE

\* No repeated submit is awaiting and no earlier run is in flight.
NoHandlers == stale = 0 /\ background = {}

\* No folder has been picked.
NoSelector == picked = <<>> /\ timer = "none"

\* AnalysisView is not mounted.
NoView ==
    /\ view = "closed"
    /\ envVars = <<>>
    /\ dockerfile = ""
    /\ port = ""
    /\ edits = 0
    /\ deployArgs = "none"

Init ==
    /\ apiKeySet \in BOOLEAN
    /\ step = "CREDENTIALS"
    /\ error = "null"
    /\ deployStatus = [step |-> "idle", progress |-> 0, repoUrl |-> "undefined"]
    /\ analysis = "null"
    /\ files = <<>>
    /\ pc = "idle"
    /\ NoRun
    /\ remote = [n \in ProjectNames |-> "norepo"]
    /\ NoHandlers
    /\ NoSelector
    /\ NoView

ResetRun ==
    /\ repo' = "none"
    /\ parentCommitSha' = "null"
    /\ baseTreeSha' = "null"
    /\ treeItems' = <<>>
    /\ processed' = 0
    /\ fileIdx' = 0
    /\ fileState' = <<>>
    /\ treeArgs' = NoArgs
    /\ commitArgs' = NoArgs
    /\ thrown' = "none"
    /\ failedAt' = "none"
    /\ reported' = <<>>
    /\ calls' = <<>>
    /\ refAtStart' = "none"
    /\ moved' = FALSE

\* ------------------------------------------------- the remote host
\* GET .../git/refs/heads/main: found when the branch exists, 404 when it
\* does not; any call can be refused (401, 403, 5xx) or fail in transport.
RefLookupAnswers(ref) ==
    (IF ref = "none" THEN {"notfound"} ELSE {"ok"}) \cup {"http", "net"}

CallAnswers == {"ok", "http", "net"}

\* POST /user/repos: a name can be taken once.
CreateRepoAnswers(r) == (IF r = "norepo" THEN {"ok"} ELSE {}) \cup {"http", "net"}

\* The snapshot (path to content) of a tree of the remote host: none for
\* no tree, README.md for the first commit of a new repository
\* (auto_init), and one more file for a commit of another writer.
SnapshotOfTree(tree) ==
    IF tree = "null" THEN <<>>
    ELSE IF tree = TreeOfCommit("init") THEN [p \in {"README.md"} |-> "readme_init"]
    ELSE [p \in {"README.md", "CHANGES.md"} |->
             IF p = "README.md" THEN "readme_init" ELSE "changes_" \o tree]

\* POST .../git/trees: the snapshot of the new tree is that of base_tree
\* with every entry's path set to the entry's blob, a later entry of the
\* same path winning.
CreatedTree(base_tree, tree) ==
    LET base == SnapshotOfTree(base_tree)
        paths == {tree[i].path : i \in 1..Len(tree)}
        last(p) == CHOOSE i \in 1..Len(tree) :
                       tree[i].path = p /\ \A k \in (i + 1)..Len(tree) : tree[k].path # p
    IN  [p \in DOMAIN base \cup paths |-> IF p \in paths THEN tree[last(p)].sha ELSE base[p]]

\* The commits other writers push to a branch, in the order they push them.
ExternalCommits == [i \in 1..MaxExternal |-> "ext" \o ToString(i)]

\* The commit another writer pushes next to a branch at ref, if any.
ExternalNext(ref) ==
    IF ref \in {"none", "init"}
      THEN {ExternalCommits[i] : i \in {1} \cap (1..MaxExternal)}
      ELSE {ExternalCommits[i + 1] : i \in {j \in 1..(MaxExternal - 1) : ExternalCommits[j] = ref}}

\* body: { sha, force: true }
ForceOff == FALSE
Force == TRUE

\* PATCH .../git/refs/heads/main updates a reference that exists; unless
\* forced, only to a commit that descends from the reference's commit.
\* When the new commit's parent is not the branch's commit, the branch has
\* moved on from that parent, and the new commit does not descend from it.
RefPatchAnswers(ref, parents, force) ==
    (IF ref # "none" /\ (force \/ parents = <<ref>>) THEN {"ok"} ELSE {})
        \cup {"http", "net"}

\* -------------------------------------------------- App: the wizard
\* !process.env.API_KEY (App.tsx line 37), !apiKey (line 482)
ApiKeyNeverMissing == FALSE
ApiKeyMissing == ~apiKeySet

\* handleConfigSubmit up to its await: the API_KEY test throws into the
\* handler's own catch.
HandleConfigSubmit ==
    /\ step = "CREDENTIALS"
    /\ pc = "idle"
    /\ deployStatus' = [step |-> "idle", progress |-> 0, repoUrl |-> "undefined"]
    /\ IF ~ApiKeyMissing
         THEN pc' = "validateToken" /\ UNCHANGED error
         ELSE pc' = "idle" /\
              error' = "System Environment Variable 'API_KEY' is missing. The application cannot start without it."
    /\ UNCHANGED <<auxVars, apiKeySet, step, analysis, files, runVars, remote>>

\* validateToken answers.
ValidateTokenResolve(ans) ==
    /\ pc = "validateToken"
    /\ pc' = "idle"
    /\ IF ans = "ok"
         THEN step' = "SELECT_FOLDER" /\ UNCHANGED error
         ELSE error' = Thrown(ans, "Invalid GitHub Token") /\ UNCHANGED step
    /\ UNCHANGED <<auxVars, apiKeySet, deployStatus, analysis, files, runVars, remote>>

\* What the await of analyzeProjectFiles gives: a result ("ok"), a payload
\* JSON.parse rejects ("fail"), or the rejection of the backend request
\* ("net").
AnalyzeAnswers == {"ok", "fail", "net"}

\* The message analyzeProjectFiles throws (lines 624-627), or the one the
\* backend request rejected with.
AnalysisThrown(ans) == Thrown(ans, "AI returned invalid JSON. Please try again.")

\* setError("Analysis Failed: " + err.message)
AnalysisFailureBare(message) == message
AnalysisFailure(message) == "Analysis Failed: " \o message

\* handleFilesSelected up to its await; analyzeProjectFiles throws at
\* once, before any request, when it is given no key (line 482).
OnFilesSelected(selectedFiles) ==
    /\ step = "SELECT_FOLDER"
    /\ pc = "idle"
    /\ files' = selectedFiles
    /\ deployStatus' = [step |-> "analyzing", progress |-> 10, repoUrl |-> "undefined"]
    /\ IF ApiKeyMissing
         THEN /\ error' = AnalysisFailure(
                    "Environment variable API_KEY is missing. The application cannot access AI services.")
              /\ step' = "SELECT_FOLDER"
              /\ pc' = "idle"
         ELSE /\ step' = "ANALYSIS"
              /\ pc' = "analyze"
              /\ UNCHANGED error
    /\ UNCHANGED <<apiKeySet, analysis, runVars, remote>>

\* onFilesSelected of a folder, the selector's own state left out.
HandleFilesSelected(selectedFiles) ==
    OnFilesSelected(selectedFiles) /\ UNCHANGED auxVars

\* analyzeProjectFiles answers with a result, or throws.
AnalyzeResolve(ans, projectName) ==
    /\ pc = "analyze"
    /\ pc' = "idle"
    /\ IF ans = "ok"
         THEN /\ analysis' = projectName
              /\ deployStatus' = [step |-> "idle", progress |-> 0, repoUrl |-> "undefined"]
              /\ step' = "REVIEW"
              /\ UNCHANGED error
         ELSE /\ error' = AnalysisFailure(AnalysisThrown(ans))
              /\ step' = "SELECT_FOLDER"
              /\ UNCHANGED <<analysis, deployStatus>>
    /\ UNCHANGED <<auxVars, apiKeySet, files, runVars, remote>>

\* AnalysisView's Reset button.
OnBack ==
    /\ step = "REVIEW"
    /\ analysis # "null"
    /\ pc = "idle"
    /\ step' = "SELECT_FOLDER"
    /\ UNCHANGED <<auxVars, apiKeySet, error, deployStatus, analysis, files, pc, runVars, remote>>

\* The success page's "Deploy Another Project" button.
DeployAnother ==
    /\ step = "SUCCESS"
    /\ step' = "SELECT_FOLDER"
    /\ UNCHANGED <<auxVars, apiKeySet, error, deployStatus, analysis, files, pc, runVars, remote>>

\* handleDeploy up to the await of createRepository.
HandleDeploy ==
    /\ step = "REVIEW"
    /\ pc = "idle"
    /\ analysis # "null"
    /\ step' = "DEPLOYING"
    /\ error' = "null"
    /\ deployStatus' = [step |-> "creating_repo", progress |-> 10, repoUrl |-> "undefined"]
    /\ pc' = "createRepository"
    /\ UNCHANGED <<auxVars, apiKeySet, analysis, files, runVars, remote>>

\* ------------------------------------------- pushFilesToRepo: pieces
Call(op, arg) == [op |-> op, arg |-> arg, res |-> "pending"]

\* The calls so far, the one in flight having answered ans.
Answered(ans) == [calls EXCEPT ![Len(calls)].res = ans]

\* onProgress(p): the percent is recorded and handleDeploy's callback runs.
Report(p) ==
    /\ reported' = Append(reported, p)
    /\ deployStatus' = StatusOfProgress(p)

\* The tests that end the run after a call: fetch rejected, or !res.ok.
BlobFailedUnchecked(ans) == ans = "net"
BlobFailed(ans) == ans # "ok"

TreeFailed(ans) == ans # "ok"

CommitFailedUnchecked(ans) == ans = "net"
CommitFailed(ans) == ans # "ok"

RefFailedUnchecked(ans) == ans = "net"
RefFailed(ans) == ans # "ok"

\* if (refRes.ok) { ... }: the branch tip is read only from an ok answer.
RefFound(ans) == ans = "ok"

\* if (parentCommitSha) commitPayload.parents = [parentCommitSha]
CommitParentsAlways(parent) == <<parent>>
CommitParents(parent) == IF parent # "null" THEN <<parent>> ELSE <<>>

\* treeItems.push({ path, mode: '100644', type: 'blob', sha })
TreeItem(path, sha) == [path |-> path, mode |-> "100644", type |-> "blob", sha |-> sha]

\* The sha createBlob returns for the generated text of an artifact, which
\* differs from the sha of any picked file's content.
GeneratedSha(artifact) == "generated_" \o artifact

\* The try/catch around one file's read and upload: a failure is logged
\* and the loop goes on.
FileFailureRethrown == TRUE
FileFailureThrows == FALSE

\* A loop that would go back to the file it has just handled.
NextIdxSameFile(i) == IF i > 1 THEN i - 1 ELSE i

\* The first file from index i on that neither `continue` skips, or
\* Len(files) + 1 when the loop has run out.
NextIdx(i) ==
    IF \E j \in i..Len(files) : ~Skipped(files[j])
      THEN CHOOSE j \in i..Len(files) :
               ~Skipped(files[j]) /\ \A k \in i..(j - 1) : Skipped(files[k])
      ELSE Len(files) + 1

\* for (const file of files) has run out of files.
LoopDoneEarly(j) == j >= Len(files)
LoopDone(j) == j > Len(files)

\* A throw out of pushFilesToRepo: no further statement of it runs.
Throw(ans, at) ==
    /\ pc' = "pushThrown"
    /\ thrown' = Thrown(ans, ErrorMessage(at))
    /\ failedAt' = at
    /\ calls' = Answered(ans)
    /\ UNCHANGED <<auxVars, appVars, repo, parentCommitSha, baseTreeSha, treeItems, processed,
                   fileIdx, fileState, treeArgs, commitArgs, reported, refAtStart, moved, remote>>

\* Lines 735-736: report 20 and send the Dockerfile blob.
StartDockerfile(ans) ==
    /\ Report(20)
    /\ calls' = Append(Answered(ans), Call("artifactBlob", "Dockerfile"))
    /\ pc' = "dockerBlob"

\* The for-of loop from index `from` with the entries `items` and the
\* calls so far `done`: skips, then either starts the next file's read
\* or leaves the loop, reports 80 and sends the tree.
ContinueLoop(from, items, fs, done) ==
    LET j == NextIdx(from)
        fs2 == [k \in 1..Len(files) |-> IF k \in from..(j - 1) THEN "skipped" ELSE fs[k]]
    IN  /\ treeItems' = items
        /\ fileState' = fs2
        /\ fileIdx' = j
        /\ IF LoopDone(j)
             THEN /\ Report(80)
                  /\ treeArgs' = [sent |-> TRUE, base_tree |-> baseTreeSha, tree |-> items]
                  /\ calls' = Append(done, Call("tree", ""))
                  /\ pc' = "tree"
                  /\ UNCHANGED processed
             ELSE /\ processed' = processed + 1
                  /\ Report(ProgressPercent(processed + 1, Len(files)))
                  /\ calls' = done
                  /\ pc' = "fileRead"
                  /\ UNCHANGED treeArgs

\* ------------------------------------------ pushFilesToRepo: steps
\* createRepository answers.  On success handleDeploy calls pushFilesToRepo,
\* which reports 10 and sends the ref lookup; a failure goes to the catch
\* of handleDeploy.  A new repository has a main branch (auto_init) unless
\* the account's default branch has another name.
CreateRepositoryResolve(ans, branch) ==
    /\ pc = "createRepository"
    /\ ans \in CreateRepoAnswers(remote[analysis])
    /\ IF ans = "ok"
         THEN /\ remote' = [remote EXCEPT ![analysis] = branch]
              /\ repo' = analysis
              /\ refAtStart' = branch
              /\ fileState' = [i \in 1..Len(files) |-> "pending"]
              /\ Report(10)
              /\ calls' = <<Call("getRef", "")>>
              /\ pc' = "getRef"
              /\ UNCHANGED <<auxVars, apiKeySet, step, error, analysis, files, parentCommitSha,
                             baseTreeSha, treeItems, processed, fileIdx, treeArgs,
                             commitArgs, thrown, failedAt, moved>>
         ELSE /\ error' = "Deployment Failed: " \o Thrown(ans, "Failed to create repository")
              /\ step' = "REVIEW"
              /\ pc' = "idle"
              /\ UNCHANGED <<auxVars, apiKeySet, deployStatus, analysis, files, runVars, remote>>

\* The ref lookup answers (lines 711-722).
GetRefResolve(ans) ==
    /\ pc = "getRef"
    /\ ans \in RefLookupAnswers(remote[repo])
    /\ IF ans = "net"
         THEN Throw(ans, "getRef")
         ELSE IF RefFound(ans)
           THEN /\ parentCommitSha' = remote[repo]
                /\ calls' = Append(Answered(ans), Call("getCommit", remote[repo]))
                /\ pc' = "getCommit"
                /\ UNCHANGED <<auxVars, appVars, repo, baseTreeSha, treeItems, processed, fileIdx,
                               fileState, treeArgs, commitArgs, thrown, failedAt, reported,
                               refAtStart, moved, remote>>
           ELSE /\ StartDockerfile(ans)
                /\ UNCHANGED <<auxVars, apiKeySet, step, error, analysis, files, repo,
                               parentCommitSha, baseTreeSha, treeItems, processed, fileIdx,
                               fileState, treeArgs, commitArgs, thrown, failedAt,
                               refAtStart, moved, remote>>

\* The lookup of the tip commit answers (lines 724-728): on a status that
\* is not ok the body has no tree, and reading its sha throws.
GetCommitResolve(ans) ==
    /\ pc = "getCommit"
    /\ ans \in CallAnswers
    /\ IF ans = "ok"
         THEN /\ baseTreeSha' = TreeOfCommit(parentCommitSha)
              /\ StartDockerfile(ans)
              /\ UNCHANGED <<auxVars, apiKeySet, step, error, analysis, files, repo,
                             parentCommitSha, treeItems, processed, fileIdx, fileState,
                             treeArgs, commitArgs, thrown, failedAt, refAtStart, moved, remote>>
         ELSE Throw(ans, "getCommit")

\* The Dockerfile blob answers (lines 736-746).
DockerBlobResolve(ans) ==
    /\ pc = "dockerBlob"
    /\ ans \in CallAnswers
    /\ IF BlobFailed(ans)
         THEN Throw(ans, "blobDockerfile")
         ELSE /\ treeItems' = Append(treeItems, TreeItem("Dockerfile", GeneratedSha("Dockerfile")))
              /\ Report(25)
              /\ calls' = Append(Answered(ans), Call("artifactBlob", "docker-compose.yaml"))
              /\ pc' = "composeBlob"
              /\ UNCHANGED <<auxVars, apiKeySet, step, error, analysis, files, repo,
                             parentCommitSha, baseTreeSha, processed, fileIdx, fileState,
                             treeArgs, commitArgs, thrown, failedAt, refAtStart, moved, remote>>

\* The compose blob answers (lines 746-767): the loop starts.
ComposeBlobResolve(ans) ==
    /\ pc = "composeBlob"
    /\ ans \in CallAnswers
    /\ IF BlobFailed(ans)
         THEN Throw(ans, "blobCompose")
         ELSE /\ ContinueLoop(1,
                     Append(treeItems, TreeItem("docker-compose.yaml",
                                                GeneratedSha("docker-compose.yaml"))),
                     fileState, Answered(ans))
              /\ UNCHANGED <<auxVars, apiKeySet, step, error, analysis, files, repo,
                             parentCommitSha, baseTreeSha, commitArgs, thrown, failedAt,
                             refAtStart, moved, remote>>

\* fileToMap of the current file answers (lines 771-772, 780-782).
FileReadResolve(ans) ==
    /\ pc = "fileRead"
    /\ ans \in {"ok", "fail"}
    /\ IF ans = "ok"
         THEN /\ calls' = Append(calls, Call("fileBlob", files[fileIdx].path))
              /\ pc' = "fileBlob"
              /\ UNCHANGED <<auxVars, appVars, repo, parentCommitSha, baseTreeSha, treeItems,
                             processed, fileIdx, fileState, treeArgs, commitArgs, thrown,
                             failedAt, reported, refAtStart, moved, remote>>
         ELSE IF FileFailureThrows
           THEN /\ pc' = "pushThrown"
                /\ thrown' = "FileReader error"
                /\ failedAt' = "fileRead"
                /\ UNCHANGED <<auxVars, appVars, repo, parentCommitSha, baseTreeSha, treeItems,
                               processed, fileIdx, fileState, treeArgs, commitArgs,
                               reported, calls, refAtStart, moved, remote>>
           ELSE /\ ContinueLoop(fileIdx + 1, treeItems,
                                [fileState EXCEPT ![fileIdx] = "failed"], calls)
                /\ UNCHANGED <<auxVars, apiKeySet, step, error, analysis, files, repo,
                               parentCommitSha, baseTreeSha, commitArgs, thrown, failedAt,
                               refAtStart, moved, remote>>

\* The current file's blob answers (lines 772-783).
FileBlobResolve(ans) ==
    /\ pc = "fileBlob"
    /\ ans \in CallAnswers
    /\ IF BlobFailed(ans) /\ FileFailureThrows
         THEN Throw(ans, "blobFile")
         ELSE /\ IF BlobFailed(ans)
                   THEN ContinueLoop(fileIdx + 1, treeItems,
                                     [fileState EXCEPT ![fileIdx] = "failed"], Answered(ans))
                   ELSE ContinueLoop(fileIdx + 1,
                                     Append(treeItems,
                                            TreeItem(files[fileIdx].path,
                                                     "blob_" \o files[fileIdx].path)),
                                     [fileState EXCEPT ![fileIdx] = "uploaded"],
                                     Answered(ans))
              /\ UNCHANGED <<auxVars, apiKeySet, step, error, analysis, files, repo,
                             parentCommitSha, baseTreeSha, commitArgs, thrown, failedAt,
                             refAtStart, moved, remote>>

\* Tree creation answers (lines 796-813).
\* The parent of the commit payload (lines 804-806): the local variable
\* set when the ref lookup answered, not the branch as it is by now.
ResolvedParentReread == IF remote[repo] = "none" THEN "null" ELSE remote[repo]
ResolvedParent == parentCommitSha

TreeResolve(ans) ==
    /\ pc = "tree"
    /\ ans \in CallAnswers
    /\ IF TreeFailed(ans)
         THEN Throw(ans, "tree")
         ELSE /\ Report(90)
              /\ commitArgs' = [sent |-> TRUE, tree |-> "newtree",
                                parents |-> CommitParents(ResolvedParent)]
              /\ calls' = Append(Answered(ans), Call("commit", ""))
              /\ pc' = "commit"
              /\ UNCHANGED <<auxVars, apiKeySet, step, error, analysis, files, repo,
                             parentCommitSha, baseTreeSha, treeItems, processed, fileIdx,
                             fileState, treeArgs, thrown, failedAt, refAtStart, moved, remote>>

\* Commit creation answers (lines 815-827).
CommitResolve(ans) ==
    /\ pc = "commit"
    /\ ans \in CallAnswers
    /\ IF CommitFailed(ans)
         THEN Throw(ans, "commit")
         ELSE /\ Report(95)
              /\ calls' = Append(Answered(ans), Call("ref", "newcommit"))
              /\ pc' = "ref"
              /\ UNCHANGED <<auxVars, apiKeySet, step, error, analysis, files, repo,
                             parentCommitSha, baseTreeSha, treeItems, processed, fileIdx,
                             fileState, treeArgs, commitArgs, thrown, failedAt,
                             refAtStart, moved, remote>>

\* The forced ref update answers (lines 829-831).
RefResolve(ans) ==
    /\ pc = "ref"
    /\ ans \in RefPatchAnswers(remote[repo], commitArgs.parents, Force)
    /\ IF RefFailed(ans)
         THEN Throw(ans, "ref")
         ELSE /\ remote' = [remote EXCEPT ![repo] = IF ans = "ok" THEN "newcommit" ELSE @]
              /\ Report(100)
              /\ calls' = Answered(ans)
              /\ pc' = "pushReturned"
              /\ UNCHANGED <<auxVars, apiKeySet, step, error, analysis, files, repo,
                             parentCommitSha, baseTreeSha, treeItems, processed, fileIdx,
                             fileState, treeArgs, commitArgs, thrown, failedAt,
                             refAtStart, moved>>

\* handleDeploy after pushFilesToRepo returned (App.tsx lines 98-104).
HandleDeployFinish ==
    /\ pc = "pushReturned"
    /\ deployStatus' = [step |-> "finished", progress |-> 100, repoUrl |-> "url_" \o repo]
    /\ step' = "SUCCESS"
    /\ pc' = "idle"
    /\ ResetRun
    /\ UNCHANGED <<auxVars, apiKeySet, error, analysis, files, remote>>

\* The catch of handleDeploy after pushFilesToRepo threw (lines 106-109).
HandleDeployCatch ==
    /\ pc = "pushThrown"
    /\ error' = "Deployment Failed: " \o thrown
    /\ step' = "REVIEW"
    /\ pc' = "idle"
    /\ ResetRun
    /\ UNCHANGED <<auxVars, apiKeySet, deployStatus, analysis, files, remote>>

Next ==
    \/ HandleConfigSubmit
    \/ \E ans \in CallAnswers : ValidateTokenResolve(ans)
    \/ \E selectedFiles \in FileLists : HandleFilesSelected(selectedFiles)
    \/ \E ans \in AnalyzeAnswers, projectName \in ProjectNames : AnalyzeResolve(ans, projectName)
    \/ OnBack
    \/ DeployAnother
    \/ HandleDeploy
    \/ \E ans \in CallAnswers, branch \in {"init", "none"} : CreateRepositoryResolve(ans, branch)
    \/ \E ans \in {"ok", "notfound", "http", "net"} : GetRefResolve(ans)
    \/ \E ans \in CallAnswers : GetCommitResolve(ans)
    \/ \E ans \in CallAnswers : DockerBlobResolve(ans)
    \/ \E ans \in CallAnswers : ComposeBlobResolve(ans)
    \/ \E ans \in {"ok", "fail"} : FileReadResolve(ans)
    \/ \E ans \in CallAnswers : FileBlobResolve(ans)
    \/ \E ans \in CallAnswers : TreeResolve(ans)
    \/ \E ans \in CallAnswers : CommitResolve(ans)
    \/ \E ans \in CallAnswers : RefResolve(ans)
    \/ HandleDeployFinish
    \/ HandleDeployCatch

Spec == Init /\ [][Next]_vars

\* ------------------------------- deployments, with other writers
\* Another writer pushes a commit to the main branch of a repository, or
\* creates the branch.  `moved` records a push that comes after the run
\* read the branch and before its ref update is answered.
ExternalPush(name) ==
    /\ remote[name] # "norepo"
    /\ \E sha \in ExternalNext(remote[name]) : remote' = [remote EXCEPT ![name] = sha]
    /\ moved' = (moved \/ (name = repo /\ pc \notin {"idle", "createRepository", "getRef",
                                                     "pushReturned", "pushThrown"}))
    /\ UNCHANGED <<auxVars, appVars, pc, repo, parentCommitSha, baseTreeSha, treeItems,
                   processed, fileIdx, fileState, treeArgs, commitArgs, thrown, failedAt,
                   reported, calls, refAtStart>>

\* The review step of a configured wizard, with an analysis and a picked
\* folder, before any deployment.
InitDeploy ==
    /\ apiKeySet = TRUE
    /\ step = "REVIEW"
    /\ error = "null"
    /\ deployStatus = [step |-> "idle", progress |-> 0, repoUrl |-> "undefined"]
    /\ analysis = "p1"
    /\ files \in DeployFileLists
    /\ pc = "idle"
    /\ NoRun
    /\ remote = [n \in ProjectNames |-> "norepo"]
    /\ NoHandlers
    /\ NoSelector
    /\ NoView

NextDeploy ==
    \/ HandleDeploy
    \/ \E ans \in CallAnswers, branch \in {"init", "none"} : CreateRepositoryResolve(ans, branch)
    \/ \E ans \in {"ok", "notfound", "http", "net"} : GetRefResolve(ans)
    \/ \E ans \in CallAnswers : GetCommitResolve(ans)
    \/ \E ans \in CallAnswers : DockerBlobResolve(ans)
    \/ \E ans \in CallAnswers : ComposeBlobResolve(ans)
    \/ \E ans \in {"ok", "fail"} : FileReadResolve(ans)
    \/ \E ans \in CallAnswers : FileBlobResolve(ans)
    \/ \E ans \in CallAnswers : TreeResolve(ans)
    \/ \E ans \in CallAnswers : CommitResolve(ans)
    \/ \E ans \in CallAnswers : RefResolve(ans)
    \/ HandleDeployFinish
    \/ HandleDeployCatch
    \/ \E name \in ProjectNames : ExternalPush(name)

SpecDeploy == InitDeploy /\ [][NextDeploy]_vars

\* pushFilesToRepo is suspended at one await at a time (lines 711-829 and
\* fileToMap, 833-845); the step that ends the await is taken once the
\* request, or the file read, has settled.
RunStepWithoutFileRead ==
    \/ \E ans \in {"ok", "notfound", "http", "net"} : GetRefResolve(ans)
    \/ \E ans \in CallAnswers : GetCommitResolve(ans)
    \/ \E ans \in CallAnswers : DockerBlobResolve(ans)
    \/ \E ans \in CallAnswers : ComposeBlobResolve(ans)
    \/ \E ans \in CallAnswers : FileBlobResolve(ans)
    \/ \E ans \in CallAnswers : TreeResolve(ans)
    \/ \E ans \in CallAnswers : CommitResolve(ans)
    \/ \E ans \in CallAnswers : RefResolve(ans)

RunStep ==
    \/ \E ans \in {"ok", "notfound", "http", "net"} : GetRefResolve(ans)
    \/ \E ans \in CallAnswers : GetCommitResolve(ans)
    \/ \E ans \in CallAnswers : DockerBlobResolve(ans)
    \/ \E ans \in CallAnswers : ComposeBlobResolve(ans)
    \/ \E ans \in {"ok", "fail"} : FileReadResolve(ans)
    \/ \E ans \in CallAnswers : FileBlobResolve(ans)
    \/ \E ans \in CallAnswers : TreeResolve(ans)
    \/ \E ans \in CallAnswers : CommitResolve(ans)
    \/ \E ans \in CallAnswers : RefResolve(ans)

\* The deployments of one wizard, no one else writing to the branch.
NextRun ==
    \/ HandleDeploy
    \/ \E ans \in CallAnswers, branch \in {"init", "none"} : CreateRepositoryResolve(ans, branch)
    \/ RunStep
    \/ HandleDeployFinish
    \/ HandleDeployCatch

\* Deployments in which every request and every file read of a run
\* settles: JavaScript runs the continuation of a settled promise.
SpecRunFair == InitDeploy /\ [][NextRun]_vars /\ WF_vars(RunStep)

\* ------------------------------------ handlers of a repeated submit
\* The credentials form is submitted again while validateToken of an
\* earlier submit is awaited: the submit button is never disabled, and
\* every submit runs handleConfigSubmit with an await of its own.
ResubmitConfig ==
    /\ step = "CREDENTIALS"
    /\ pc = "validateToken"
    /\ apiKeySet
    /\ stale < MaxStale
    /\ stale' = stale + 1
    /\ deployStatus' = [step |-> "idle", progress |-> 0, repoUrl |-> "undefined"]
    /\ UNCHANGED <<apiKeySet, step, error, analysis, files, pc, runVars, remote,
                   background, reviewVars, selectorVars>>

\* validateToken of a repeated submit answers, whatever the wizard shows
\* by then: the continuation of handleConfigSubmit tests nothing.
StaleValidateTokenResolve(ans) ==
    /\ stale > 0
    /\ stale' = stale - 1
    /\ IF ans = "ok"
         THEN step' = "SELECT_FOLDER" /\ UNCHANGED error
         ELSE error' = Thrown(ans, "Invalid GitHub Token") /\ UNCHANGED step
    /\ UNCHANGED <<apiKeySet, deployStatus, analysis, files, pc, runVars, remote,
                   background, reviewVars, selectorVars>>

\* The awaits at which a handleDeploy call is in flight.
RunPcs == {"createRepository", "getRef", "getCommit", "dockerBlob", "composeBlob",
           "fileRead", "fileBlob", "tree", "commit", "ref", "pushReturned", "pushThrown"}

\* A folder is picked while a pushFilesToRepo call is in flight (the
\* folder selector is shown again).  The run goes on; from here on the
\* model follows the new handler and keeps of the run only its repository.
HandleFilesSelectedDuringRun(selectedFiles) ==
    /\ step = "SELECT_FOLDER"
    /\ pc \in RunPcs \ {"createRepository"}
    /\ background' = background \cup {repo}
    /\ ResetRun
    /\ files' = selectedFiles
    /\ step' = "ANALYSIS"
    /\ deployStatus' = [step |-> "analyzing", progress |-> 10, repoUrl |-> "undefined"]
    /\ pc' = "analyze"
    /\ UNCHANGED <<apiKeySet, error, analysis, remote, stale, reviewVars, selectorVars>>

\* A run that is no longer followed ends: pushFilesToRepo returned after
\* its ref update (lines 98-104 of App.tsx), or threw (lines 106-109).
\* Its progress reports in between are left out.
BackgroundRunEnds(name, ans, at) ==
    /\ name \in background
    /\ background' = background \ {name}
    /\ IF ans = "ok"
         THEN /\ remote[name] # "none"
              /\ remote' = [remote EXCEPT ![name] = "newcommit"]
              /\ deployStatus' = [step |-> "finished", progress |-> 100,
                                  repoUrl |-> "url_" \o name]
              /\ step' = "SUCCESS"
              /\ UNCHANGED error
         ELSE /\ error' = "Deployment Failed: " \o Thrown(ans, ErrorMessage(at))
              /\ step' = "REVIEW"
              /\ UNCHANGED <<deployStatus, remote>>
    /\ UNCHANGED <<apiKeySet, analysis, files, pc, runVars, stale, reviewVars, selectorVars>>

\* The folders picked in this specification hold at most one file.
HandlerFileLists == {s \in FileLists : Len(s) <= 1}

NextHandlers ==
    \/ HandleConfigSubmit
    \/ ResubmitConfig
    \/ \E ans \in CallAnswers : ValidateTokenResolve(ans)
    \/ \E ans \in CallAnswers : StaleValidateTokenResolve(ans)
    \/ \E selectedFiles \in HandlerFileLists : HandleFilesSelected(selectedFiles)
    \/ \E selectedFiles \in HandlerFileLists : HandleFilesSelectedDuringRun(selectedFiles)
    \/ \E ans \in AnalyzeAnswers, projectName \in ProjectNames : AnalyzeResolve(ans, projectName)
    \/ OnBack
    \/ DeployAnother
    \/ HandleDeploy
    \/ \E ans \in CallAnswers, branch \in {"init", "none"} : CreateRepositoryResolve(ans, branch)
    \/ \E ans \in {"ok", "notfound", "http", "net"} : GetRefResolve(ans)
    \/ \E ans \in CallAnswers : GetCommitResolve(ans)
    \/ \E ans \in CallAnswers : DockerBlobResolve(ans)
    \/ \E ans \in CallAnswers : ComposeBlobResolve(ans)
    \/ \E ans \in {"ok", "fail"} : FileReadResolve(ans)
    \/ \E ans \in CallAnswers : FileBlobResolve(ans)
    \/ \E ans \in CallAnswers : TreeResolve(ans)
    \/ \E ans \in CallAnswers : CommitResolve(ans)
    \/ \E ans \in CallAnswers : RefResolve(ans)
    \/ HandleDeployFinish
    \/ HandleDeployCatch
    \/ \E name \in ProjectNames, ans \in CallAnswers, at \in {"tree", "ref"} :
          BackgroundRunEnds(name, ans, at)

SpecHandlers == Init /\ [][NextHandlers]_vars

\* ------------------------------------ AnalysisView: the templates
\* AnalysisView holding an EnvVar list, a build file and a port.
InitTemplate ==
    /\ apiKeySet = TRUE
    /\ step = "REVIEW"
    /\ error = "null"
    /\ deployStatus = [step |-> "idle", progress |-> 0, repoUrl |-> "undefined"]
    /\ analysis = "p1"
    /\ files = <<>>
    /\ pc = "idle"
    /\ NoRun
    /\ remote = [n \in ProjectNames |-> "norepo"]
    /\ NoHandlers
    /\ NoSelector
    /\ view = "open"
    /\ envVars \in EnvLists
    /\ dockerfile \in BuildFiles
    /\ port \in Ports
    /\ edits = 0
    /\ deployArgs = "none"

\* The effect of lines 85-90: the build file is regenerated from the list.
SyncDockerfile ==
    /\ view = "open"
    /\ edits < MaxEdits
    /\ edits' = edits + 1
    /\ dockerfile' = cleanDockerfile(dockerfile, envVars)
    /\ UNCHANGED <<appVars, pc, runVars, remote, handlerVars, selectorVars, view, envVars, port, deployArgs>>

\* The Deploy button (line 287) hands the build file and the compose file
\* of this render to onDeploy.
OnDeploy ==
    /\ view = "open"
    /\ view' = "deployed"
    /\ deployArgs' = [dockerfile |-> dockerfile,
                      compose |-> dockerComposeContent(envVars, port)]
    /\ UNCHANGED <<appVars, pc, runVars, remote, handlerVars, selectorVars, envVars, dockerfile, port, edits>>

NextTemplate == SyncDockerfile \/ OnDeploy

SpecTemplate == InitTemplate /\ [][NextTemplate]_vars

\* ------------------------------------ AnalysisView: the review step
\* Analysis results as JSON.parse hands them over, unvalidated: no
\* variable, variables that need a value, a key twice, a secret and a
\* value of two lines, keys the list hides, a value for a two-stage file.
AnalysisResults ==
    { [envVars |-> <<>>,
       dockerfile |-> "FROM node:18\nWORKDIR /app\nCOPY . .\nCMD npm start",
       port |-> 3000],
      [envVars |-> << [key |-> "DB_URL", value |-> "", defaultValue |-> "postgres://db"],
                      [key |-> "MODEL_NAME", value |-> "", defaultValue |-> "gpt"] >>,
       dockerfile |-> "FROM node:18\nCOPY . .\nCMD npm start",
       port |-> 8000],
      [envVars |-> << [key |-> "DB_URL", value |-> "", defaultValue |-> "postgres://db"],
                      [key |-> "DB_URL", value |-> "v1", defaultValue |-> "undefined"] >>,
       dockerfile |-> "FROM node:18\nWORKDIR /app\nCOPY . .\nCMD npm start",
       port |-> 3000],
      [envVars |-> << [key |-> "API_TOKEN", value |-> "s3cret", defaultValue |-> ""],
                      [key |-> "MOTD", value |-> "line1\nline2", defaultValue |-> "undefined"] >>,
       dockerfile |-> "FROM node:18\nENV OLD=\"1\"\nWORKDIR /app\n  ENV INDENTED=2\nCMD npm start",
       port |-> 3000],
      [envVars |-> << [key |-> "PORT", value |-> "8000", defaultValue |-> "undefined"],
                      [key |-> "CI", value |-> "true", defaultValue |-> "undefined"] >>,
       dockerfile |-> "COPY . .\nCMD npm start",
       port |-> 8000],
      [envVars |-> << [key |-> "DB_URL", value |-> "v1", defaultValue |-> "undefined"] >>,
       dockerfile |-> "FROM node:18 AS build\nWORKDIR /src\nFROM nginx\nWORKDIR /srv",
       port |-> 8000] }

\* AnalysisView as constructed from an analysis result (useState(result)),
\* before its effects have run.
InitReview ==
    /\ apiKeySet = TRUE
    /\ step = "REVIEW"
    /\ error = "null"
    /\ deployStatus = [step |-> "idle", progress |-> 0, repoUrl |-> "undefined"]
    /\ analysis = "p1"
    /\ files = <<>>
    /\ pc = "idle"
    /\ NoRun
    /\ remote = [n \in ProjectNames |-> "norepo"]
    /\ NoHandlers
    /\ NoSelector
    /\ view = "mounting"
    /\ \E result \in AnalysisResults :
          /\ envVars = result.envVars
          /\ dockerfile = result.dockerfile
          /\ port = result.port
    /\ edits = 0
    /\ deployArgs = "none"

\* The effects of the first render (lines 48-90): the merge effect and the
\* sync effect queue their updates, and the sync effect runs once more
\* because the merge replaced the list.
Mount ==
    /\ view = "mounting"
    /\ view' = "open"
    /\ LET sorted == sortVars(mergeStandard(envVars, Len(STANDARD_LLM_VARS)))
       IN  /\ envVars' = sorted
           /\ dockerfile' =
                  cleanDockerfile(cleanDockerfile(cleanDockerfile(dockerfile, sorted),
                                                  sorted), sorted)
    /\ UNCHANGED <<appVars, pc, runVars, remote, handlerVars, selectorVars, port, edits, deployArgs>>

\* handleEnvChange(realIndex, val) from the input of a listed variable,
\* realIndex being the first index of its key; then the sync effect.
HandleEnvChange(idx, val) ==
    /\ view = "open"
    /\ edits < MaxEdits
    /\ idx \in 1..Len(envVars)
    /\ envVars[idx].key \notin HiddenKeys
    /\ \A k \in 1..(idx - 1) : envVars[k].key # envVars[idx].key
    /\ val # envVars[idx].value
    /\ edits' = edits + 1
    /\ envVars' = [envVars EXCEPT ![idx].value = val]
    /\ dockerfile' = cleanDockerfile(dockerfile, envVars')
    /\ UNCHANGED <<appVars, pc, runVars, remote, handlerVars, selectorVars, view, port, deployArgs>>

\* addEnvVar (lines 123-141): nothing for a key the list has; then the
\* sync effect.
AddEnvVar(newVarKey) ==
    /\ view = "open"
    /\ edits < MaxEdits
    /\ Trim(newVarKey) # ""
    /\ edits' = edits + 1
    /\ LET key == SanitizeKey(newVarKey)
       IN  IF \E i \in 1..Len(envVars) : envVars[i].key = key
             THEN UNCHANGED <<envVars, dockerfile>>
             ELSE /\ envVars' = Append(envVars, [key |-> key, value |-> "",
                                                 defaultValue |-> ""])
                  /\ dockerfile' = cleanDockerfile(dockerfile, envVars')
    /\ UNCHANGED <<appVars, pc, runVars, remote, handlerVars, selectorVars, view, port, deployArgs>>

\* removeEnvVar(key) from the button of a listed variable; then the sync
\* effect.
RemoveEnvVar(key) ==
    /\ view = "open"
    /\ edits < MaxEdits
    /\ key \notin HiddenKeys
    /\ \E i \in 1..Len(envVars) : envVars[i].key = key
    /\ edits' = edits + 1
    /\ envVars' = SelectSeq(envVars, LAMBDA e : e.key # key)
    /\ dockerfile' = cleanDockerfile(dockerfile, envVars')
    /\ UNCHANGED <<appVars, pc, runVars, remote, handlerVars, selectorVars, view, port, deployArgs>>

\* What a user makes of the build file in the textarea: one more ENV
\* line at the end, or every ENV line deleted.
HandEdits(text) ==
    { text \o "\nENV EXTRA=\"1\"",
      JoinLines(SelectSeq(SplitLines(text), LAMBDA l : ~IsEnvLine(l))) }

\* The textarea's onChange (lines 336-340): the list is not replaced, so
\* no effect runs.
EditDockerfile(text) ==
    /\ view = "open"
    /\ edits < MaxEdits
    /\ text # dockerfile
    /\ edits' = edits + 1
    /\ dockerfile' = text
    /\ UNCHANGED <<appVars, pc, runVars, remote, handlerVars, selectorVars, view, envVars, port, deployArgs>>

NextReview ==
    \/ Mount
    \/ \E idx \in 1..(MaxVars + Len(STANDARD_LLM_VARS) + MaxEdits), val \in {"", "typed"} :
          HandleEnvChange(idx, val)
    \/ \E newVarKey \in {"my key", "db_url"} : AddEnvVar(newVarKey)
    \/ \E key \in {envVars[i].key : i \in 1..Len(envVars)} : RemoveEnvVar(key)
    \/ \E text \in HandEdits(dockerfile) : EditDockerfile(text)
    \/ OnDeploy

SpecReview == InitReview /\ [][NextReview]_vars

\* ------------------------------------ AnalysisView: the mount effect
\* Entries an analysis result can hold for the mount effect to merge:
\* those of EnvEntries, and standard keys with and without a value.
MergeEntries ==
    EnvEntries \cup
    { [key |-> "OPENROUTER_API_KEY", value |-> "x", defaultValue |-> "undefined"],
      [key |-> "LLM_PROVIDER",       value |-> "",  defaultValue |-> "undefined"],
      [key |-> "GOOGLE_API_KEY",     value |-> "",  defaultValue |-> "undefined"],
      [key |-> "HOST",               value |-> "127.0.0.1", defaultValue |-> "undefined"] }

MergeLists == UNION { [1..n -> MergeEntries] : n \in 0..MaxVars }

InitMerge ==
    /\ apiKeySet = TRUE
    /\ step = "REVIEW"
    /\ error = "null"
    /\ deployStatus = [step |-> "idle", progress |-> 0, repoUrl |-> "undefined"]
    /\ analysis = "p1"
    /\ files = <<>>
    /\ pc = "idle"
    /\ NoRun
    /\ remote = [n \in ProjectNames |-> "norepo"]
    /\ NoHandlers
    /\ NoSelector
    /\ view = "mounting"
    /\ envVars \in MergeLists
    /\ dockerfile \in BuildFiles
    /\ port = 3000
    /\ edits = 0
    /\ deployArgs = "none"

\* The updater of the mount effect (lines 49-81) applied once more to
\* the state it produced.
MergeAgain ==
    /\ view = "open"
    /\ edits < MaxEdits
    /\ edits' = edits + 1
    /\ envVars' = sortVars(mergeStandard(envVars, Len(STANDARD_LLM_VARS)))
    /\ dockerfile' = cleanDockerfile(dockerfile, envVars')
    /\ UNCHANGED <<appVars, pc, runVars, remote, handlerVars, selectorVars, view, port, deployArgs>>

NextMerge == Mount \/ MergeAgain \/ OnDeploy

SpecMerge == InitMerge /\ [][NextMerge]_vars

\* ------------------------------------------------- FolderSelector
\* The folders a user can pick and what they hold: webkitRelativePath is
\* the folder's name, a slash and the file's path inside the folder; one
\* folder has a space in its name, one file lies in a directory named as
\* the folder.
RootFolders == {"proj", "my app"}

PathsInFolder == {"pkg.json", "src/index.js", "proj/readme.md", "a/b/c.txt"}

PickedFiles ==
    { [webkitRelativePath |-> r \o "/" \o q, size |-> 120] :
        r \in RootFolders, q \in PathsInFolder }

\* e.target.files of one pick: files of one folder, each once.
PickedLists ==
    UNION { { s \in [1..n -> PickedFiles] :
                /\ \A i, j \in 1..n : s[i] = s[j] => i = j
                /\ \E r \in RootFolders :
                      \A i \in 1..n : StartsWith(s[i].webkitRelativePath, r \o "/") } :
            n \in 1..MaxFiles }

\* firstPath.split('/'): parts[0] + '/' when there is more than one part.
rootFolderName(fileList) ==
    LET firstPath == fileList[1].webkitRelativePath
        slashes == {i \in 1..Len(firstPath) : Char(firstPath, i) = "/"}
    IN  IF slashes = {} THEN ""
        ELSE SubSeq(firstPath, 1, CHOOSE i \in slashes : \A k \in slashes : i <= k)

\* The path of an entry: the root folder's name sliced off.
EntryPathUnstripped(path, root) == path
EntryPath(path, root) ==
    IF StartsWith(path, root) THEN SubSeq(path, Len(root) + 1, Len(path)) ELSE path

\* fileList.map(...).filter(f => f.path !== '')
EntriesOf(fileList) ==
    SelectSeq([i \in 1..Len(fileList) |->
                  [path |-> EntryPath(fileList[i].webkitRelativePath,
                                      rootFolderName(fileList)),
                   size |-> fileList[i].size]],
              LAMBDA f : f.path # "")

\* The wizard shows the folder selector.
InitSelect ==
    /\ apiKeySet = TRUE
    /\ step = "SELECT_FOLDER"
    /\ error = "null"
    /\ deployStatus = [step |-> "idle", progress |-> 0, repoUrl |-> "undefined"]
    /\ analysis = "null"
    /\ files = <<>>
    /\ pc = "idle"
    /\ NoRun
    /\ remote = [n \in ProjectNames |-> "norepo"]
    /\ NoHandlers
    /\ NoView
    /\ NoSelector

\* handleFileChange (lines 363-394): the entries are computed and handed
\* to a timeout of 500 ms.  A second pick within that time is left out.
HandleFileChange(fileList) ==
    /\ step = "SELECT_FOLDER"
    /\ pc = "idle"
    /\ timer = "none"
    /\ Len(fileList) > 0
    /\ picked' = fileList
    /\ timer' = EntriesOf(fileList)
    /\ UNCHANGED <<appVars, pc, runVars, remote, handlerVars, reviewVars>>

\* The timeout: onFilesSelected(entries), which is handleFilesSelected.
SelectorTimeout ==
    /\ timer # "none"
    /\ OnFilesSelected(timer)
    /\ timer' = "none"
    /\ UNCHANGED <<handlerVars, reviewVars, picked>>

NextSelect ==
    \/ \E fileList \in PickedLists : HandleFileChange(fileList)
    \/ SelectorTimeout
    \/ \E ans \in AnalyzeAnswers, projectName \in ProjectNames : AnalyzeResolve(ans, projectName)

SpecSelect == InitSelect /\ [][NextSelect]_vars

\* ------------------------------------------------------------ claims
NonDecreasing(seq) == \A i \in 1..(Len(seq) - 1) : seq[i] <= seq[i + 1]

FileStates == {fileState[i] : i \in 1..Len(fileState)}

CallsOf(op) == {i \in 1..Len(calls) : calls[i].op = op}

\* The entries of the files whose upload succeeded, in the files' order.
UploadedEntries ==
    LET sel == SelectSeq([i \in 1..Len(files) |-> i], LAMBDA i : fileState[i] = "uploaded")
    IN  [k \in 1..Len(sel) |->
            TreeItem(files[sel[k]].path, "blob_" \o files[sel[k]].path)]

ArtifactEntries ==
    <<TreeItem("Dockerfile", GeneratedSha("Dockerfile")),
      TreeItem("docker-compose.yaml", GeneratedSha("docker-compose.yaml"))>>

\* C1: in every run of pushFilesToRepo the percents passed to onProgress
\* never decrease, and a run that returns has reported 100 last.
C1_MonotonicProgress ==
    /\ NonDecreasing(reported)
    /\ pc = "pushReturned" => (reported # <<>> /\ Last(reported) = 100)

\* A run returned after processing two files, one of whose uploads failed.
C1_Witness ==
    /\ pc = "pushReturned"
    /\ processed >= 2
    /\ "failed" \in FileStates
    /\ Len(reported) >= 9

\* C2: a failing read or upload of a file never makes the run throw, and
\* the entries sent to tree creation are the two artifacts followed by one
\* entry per file that was neither skipped nor failed; every file that is
\* not skipped has been attempted by then.
C2_SkipNotAbort ==
    /\ failedAt \notin {"fileRead", "blobFile"}
    /\ pc = "pushThrown" =>
         \E i \in 1..Len(calls) : calls[i].op # "fileBlob" /\ calls[i].res \in {"http", "net"}
    /\ treeArgs.sent =>
         /\ treeArgs.tree = ArtifactEntries \o UploadedEntries
         /\ \A i \in 1..Len(files) :
               IF Skipped(files[i]) THEN fileState[i] = "skipped"
               ELSE fileState[i] \in {"uploaded", "failed"}

\* A run returned although every file's upload failed, one at the read and
\* one at the blob call.
C2_Witness ==
    /\ pc = "pushReturned"
    /\ FileStates = {"failed"}
    /\ Len(files) >= 2
    /\ \E i \in CallsOf("fileBlob") : calls[i].res # "ok"
    /\ treeArgs.tree = ArtifactEntries

\* The answers that make a call a failed one.
Failures == {"http", "net"}

\* The calls that write to the repository.
WriteOps == {"artifactBlob", "fileBlob", "tree", "commit", "ref"}

\* C3: once a remote call other than a file's upload has failed, the run
\* has thrown and that call is the last one it issued.
C3_FailFast ==
    \A i \in 1..Len(calls) :
        (calls[i].op # "fileBlob" /\ calls[i].res \in Failures) =>
            (pc = "pushThrown" /\ i = Len(calls))

\* C4: the ref update is issued at most once, and only after commit
\* creation answered ok; while the run has not returned, and in particular
\* when it has thrown, the branch pointer is the one the run started from.
C4_RefUntouchedOnError ==
    /\ Cardinality(CallsOf("ref")) <= 1
    /\ \A i \in CallsOf("ref") : i > 1 /\ calls[i - 1].op = "commit" /\ calls[i - 1].res = "ok"
    /\ (repo # "none" /\ pc # "pushReturned") => remote[repo] = refAtStart
    /\ pc = "pushThrown" => remote[repo] # "newcommit"

\* The ref update failed after blobs, a tree and a commit were created.
C4_Witness ==
    /\ pc = "pushThrown"
    /\ failedAt = "ref"
    /\ commitArgs.sent
    /\ Len(treeItems) >= 3
    /\ remote[repo] = "init"

\* C5: 100 is reported only when the ref update answered ok, so a run that
\* has thrown never reported 100, and the UI shows 100 only for such a run.
C5_HundredOnlyAfterRef ==
    /\ (\E i \in 1..Len(reported) : reported[i] = 100) =>
          /\ pc = "pushReturned"
          /\ Last(calls).op = "ref" /\ Last(calls).res = "ok"
          /\ remote[repo] = "newcommit"
    /\ pc = "pushThrown" => \A i \in 1..Len(reported) : reported[i] < 100
    /\ deployStatus.progress = 100 => (pc = "pushReturned" \/ deployStatus.step = "finished")

\* The run reported 100 and the branch points at the new commit.
C5_Witness ==
    /\ pc = "pushReturned"
    /\ Last(reported) = 100
    /\ deployStatus.progress = 100
    /\ remote[repo] = "newcommit"

\* C6: when the ref lookup answers not-found the run does not throw for
\* it, parent commit and base tree stay null, tree creation is sent a null
\* base tree and the commit is sent without parents.
C6_EmptyHistory ==
    (calls # <<>> /\ calls[1].res = "notfound") =>
        /\ failedAt # "getRef"
        /\ parentCommitSha = "null"
        /\ baseTreeSha = "null"
        /\ treeArgs.sent => treeArgs.base_tree = "null"
        /\ commitArgs.sent => commitArgs.parents = <<>>

\* The branch was missing and the parentless commit has been created.
C6_Witness ==
    /\ pc = "ref"
    /\ calls[1].res = "notfound"
    /\ commitArgs.sent
    /\ commitArgs.parents = <<>>
    /\ refAtStart = "none"

\* C7: when the ref lookup, or the lookup of the tip commit, answers with
\* anything but found or not-found, the run has thrown and has made no
\* blob, tree, commit or ref call.
C7_ResolutionFailureIsFatal ==
    (\E i \in 1..Len(calls) :
        calls[i].op \in {"getRef", "getCommit"} /\ calls[i].res \in Failures) =>
      /\ pc = "pushThrown"
      /\ \A i \in 1..Len(calls) : calls[i].op \notin WriteOps

\* The phase a failing call belongs to.
PhaseOf(at) ==
    CASE at \in {"getRef", "getCommit"} -> "resolution"
      [] at \in {"blobDockerfile", "blobCompose"} -> "artifacts"
      [] OTHER -> at

\* The calls whose failure is fatal, with the ways each can fail (a ref
\* lookup with a not-ok status does not end the run).
FatalFailures ==
    { <<at, ans>> \in {"getRef", "getCommit", "blobDockerfile", "blobCompose",
                       "tree", "commit", "ref"} \X Failures :
        ~(at = "getRef" /\ ans = "http") }

\* C8: the error a failed run throws identifies the failing phase: no call
\* of another phase, failing by status or in transport, throws the same
\* message.
C8_ErrorNamesPhase ==
    pc = "pushThrown" =>
        \A f \in FatalFailures :
            Thrown(f[2], ErrorMessage(f[1])) = thrown => PhaseOf(f[1]) = PhaseOf(failedAt)

\* C9: when a deployment run ends in a failure (handleDeploy's catch
\* runs), DeploymentStatus.step becomes 'error'.
C9_FailureMovesToError ==
    [][(pc \in {"createRepository", "pushThrown"} /\ pc' = "idle" /\ step' = "REVIEW")
          => deployStatus'.step = "error"]_vars

\* C10: the phases run in order: at most the last call is unanswered, no
\* blob is sent before branch resolution has answered, the tree is sent
\* only when every file is skipped, uploaded or failed, the commit only
\* after the tree answered ok and the ref update only after the commit
\* answered ok.
C10_PhasesInOrder ==
    /\ \A i \in 1..(Len(calls) - 1) : calls[i].res # "pending"
    /\ \A i \in 1..Len(calls) :
          /\ calls[i].op \in WriteOps =>
                /\ calls[1].op = "getRef" /\ calls[1].res \in {"ok", "notfound", "http"}
                /\ calls[1].res = "ok" => (calls[2].op = "getCommit" /\ calls[2].res = "ok")
          /\ calls[i].op = "tree" =>
                /\ \A k \in 1..Len(files) : fileState[k] \in {"skipped", "uploaded", "failed"}
                /\ \A k \in 1..(i - 1) : calls[k].op \in {"getRef", "getCommit", "artifactBlob", "fileBlob"}
                /\ Cardinality({k \in 1..(i - 1) : calls[k].op = "artifactBlob" /\ calls[k].res = "ok"}) = 2
          /\ calls[i].op = "commit" => (calls[i - 1].op = "tree" /\ calls[i - 1].res = "ok")
          /\ calls[i].op = "ref" => (calls[i - 1].op = "commit" /\ calls[i - 1].res = "ok")

\* A run went through every phase with one file skipped and one uploaded.
C10_Witness ==
    /\ pc = "pushReturned"
    /\ "skipped" \in FileStates
    /\ "uploaded" \in FileStates
    /\ Len(calls) = 8

\* C11: the body of every tree-creation request starts with the generated
\* build file at path Dockerfile and the generated compose file at path
\* docker-compose.yaml, whatever files were picked, and an artifact upload
\* that fails ends the run at once: it is the run's last call, the run has
\* thrown and no tree is sent.
C11_ArtifactsFirstAndFatal ==
    /\ treeArgs.sent =>
          /\ Len(treeArgs.tree) >= 2
          /\ treeArgs.tree[1].path = "Dockerfile"
          /\ treeArgs.tree[1].sha = "generated_Dockerfile"
          /\ treeArgs.tree[2].path = "docker-compose.yaml"
          /\ treeArgs.tree[2].sha = "generated_docker-compose.yaml"
    /\ \A i \in CallsOf("artifactBlob") :
          calls[i].res \in {"http", "net"} =>
              /\ i = Len(calls)
              /\ pc = "pushThrown"
              /\ ~treeArgs.sent

\* A tree request of a run on an empty folder: only the two artifacts.
C11_Witness ==
    /\ treeArgs.sent
    /\ files = <<>>
    /\ Len(treeArgs.tree) = 2

\* C12: a file whose path contains node_modules/, .git/ or .next/, or whose
\* size exceeds 1 MiB, is never the file being read or uploaded, no blob
\* request and no tree entry of the loop carries its path, it never makes
\* the run throw, and once the loop is over it is marked skipped.
C12_SkippedNeverTouched ==
    \A k \in 1..Len(fileState) :
        (\/ Includes(files[k].path, "node_modules/")
         \/ Includes(files[k].path, ".git/")
         \/ Includes(files[k].path, ".next/")
         \/ files[k].size > 1048576) =>
            /\ fileState[k] \in {"pending", "skipped"}
            /\ ~(pc \in {"fileRead", "fileBlob"} /\ fileIdx = k)
            /\ \A i \in CallsOf("fileBlob") : calls[i].arg # files[k].path
            /\ \A i \in 3..Len(treeItems) : treeItems[i].path # files[k].path
            /\ ~(failedAt \in {"fileRead", "blobFile"} /\ fileIdx = k)
            /\ (treeArgs.sent \/ fileIdx > k) => fileState[k] = "skipped"

\* A run returned whose folder held a file under a .git/ directory and a
\* file of more than 1 MiB.
C12_Witness ==
    /\ pc = "pushReturned"
    /\ Len(files) = 2
    /\ \E k \in 1..2 : Includes(files[k].path, ".git/")
    /\ \E k \in 1..2 : files[k].size > 1048576
    /\ \A k \in 1..2 : fileState[k] = "skipped"

\* C13: when a run has returned, the snapshot it published holds every
\* path of the snapshot the branch had when the run started, with the
\* base's content for a path that no entry names, and an entry's content
\* for every path the entries name.
C13_PublishedIsBaseOverridden ==
    pc = "pushReturned" =>
        LET base == SnapshotOfTree(IF refAtStart = "none" THEN "null"
                                   ELSE TreeOfCommit(refAtStart))
            published == CreatedTree(treeArgs.base_tree, treeArgs.tree)
            entries == treeArgs.tree
            named == {entries[i].path : i \in 1..Len(entries)}
        IN  /\ \A p \in DOMAIN base :
                  /\ p \in DOMAIN published
                  /\ p \notin named => published[p] = base[p]
            /\ \A p \in named :
                  /\ p \in DOMAIN published
                  /\ \E i \in 1..Len(entries) :
                        entries[i].path = p /\ published[p] = entries[i].sha

\* C14: when another writer has moved the branch after the run read it,
\* the host still accepts the run's ref update, and a run that returned
\* has left the branch at its new commit.
C14_ForcedUpdateWins ==
    /\ (pc = "ref" /\ moved) =>
          "ok" \in RefPatchAnswers(remote[repo], commitArgs.parents, Force)
    /\ pc = "pushReturned" =>
          /\ Last(calls) = [op |-> "ref", arg |-> "newcommit", res |-> "ok"]
          /\ remote[repo] = "newcommit"

\* A run that read the branch at the repository's first commit returned
\* after another writer had moved the branch.
C14_Witness ==
    /\ pc = "pushReturned"
    /\ moved
    /\ parentCommitSha = "init"
    /\ remote[repo] = "newcommit"

\* The handleDeploy calls in flight.
RunsInFlight == Cardinality(background) + (IF pc \in RunPcs THEN 1 ELSE 0)

\* C15: at most one deployment run is in flight at any time.
C15_AtMostOneRun == RunsInFlight <= 1

\* C16: regenerating the build file twice from the same EnvVar list gives
\* the text that regenerating it once gives, for every list and build
\* file.
C16_RegenerationIdempotent ==
    view = "open" =>
        cleanDockerfile(cleanDockerfile(dockerfile, envVars), envVars)
            = cleanDockerfile(dockerfile, envVars)

\* The keys of a list, each once, in the order of their first occurrences.
RECURSIVE FirstOccurrences(_)
FirstOccurrences(list) ==
    IF list = <<>> THEN <<>>
    ELSE LET front == FirstOccurrences(SubSeq(list, 1, Len(list) - 1))
             key == list[Len(list)].key
         IN  IF \E i \in 1..Len(front) : front[i] = key THEN front ELSE Append(front, key)

\* The lines of a compose file after "    environment:" up to the next
\* empty line.
EnvironmentBlock(compose) ==
    LET lines == SplitLines(compose)
        from == CHOOSE i \in 1..Len(lines) : lines[i] = "    environment:"
        to == CHOOSE i \in (from + 1)..Len(lines) :
                  lines[i] = "" /\ \A k \in (from + 1)..(i - 1) : lines[k] # ""
    IN  SubSeq(lines, from + 1, to - 1)

\* The key a line "      - KEY=..." of the environment block declares.
DeclaredKey(line) ==
    LET eq == CHOOSE i \in 1..Len(line) :
                  Char(line, i) = "=" /\ \A k \in 1..(i - 1) : Char(line, k) # "="
    IN  SubSeq(line, 9, eq - 1)

\* C17: the environment block of the compose file handed to onDeploy
\* declares every key of the EnvVar list once, in the order of the keys'
\* first occurrences in the list, also when the list repeats a key; for
\* an empty list the block is the placeholder comment.
C17_ComposeKeysOnceInOrder ==
    view = "deployed" =>
        LET block == EnvironmentBlock(deployArgs.compose)
            keys == FirstOccurrences(envVars)
        IN  IF keys = <<>>
              THEN block = <<"      # No environment variables defined">>
              ELSE /\ Len(block) = Len(keys)
                   /\ \A i \in 1..Len(keys) :
                         /\ StartsWith(block[i], "      - ")
                         /\ DeclaredKey(block[i]) = keys[i]

\* A compose file was handed over for a list that names one key twice.
C17_Witness ==
    /\ view = "deployed"
    /\ Len(envVars) = 2
    /\ envVars[1].key = envVars[2].key
    /\ envVars[1].value # envVars[2].value

\* C18: the compose file handed to onDeploy is, byte for byte, the one
\* that any list with the same keys in the same order and the same port
\* gives, whatever its values and defaults are.
C18_ComposeIgnoresValues ==
    view = "deployed" =>
        \A other \in EnvLists :
            (/\ Len(other) = Len(envVars)
             /\ \A i \in 1..Len(other) : other[i].key = envVars[i].key) =>
                dockerComposeContent(other, port) = deployArgs.compose

\* A compose file was handed over for a list whose first key has a value,
\* and another list has that key with no value and another default.
C18_Witness ==
    /\ view = "deployed"
    /\ Len(envVars) >= 1
    /\ envVars[1].value = "v1"
    /\ \E other \in EnvLists :
          /\ Len(other) = Len(envVars)
          /\ \A i \in 1..Len(other) : other[i].key = envVars[i].key
          /\ other[1].value = ""
          /\ other[1].defaultValue # envVars[1].defaultValue

\* C20: a regenerated build file holds one declaration per entry of the
\* EnvVar list, ENV key="value" with the entry's own value (nothing when
\* it is empty, never its defaultValue): the declarations stand together
\* in list order, and the lines of the file that start a declaration are
\* the first lines of these declarations, one per entry.
C20_OneDeclarationPerEntry ==
    edits > 0 =>
        LET decls == [i \in 1..Len(envVars) |->
                         "ENV " \o envVars[i].key \o "=\"" \o envVars[i].value \o "\""]
            block == IF decls = <<>> THEN <<>> ELSE SplitLines(JoinLines(decls))
            lines == SplitLines(dockerfile)
        IN  /\ \E k \in 0..(Len(lines) - Len(block)) :
                  SubSeq(lines, k + 1, k + Len(block)) = block
            /\ SelectSeq(lines, LAMBDA l : StartsWith(Trim(l), "ENV "))
                  = [i \in 1..Len(decls) |-> SplitLines(decls[i])[1]]

\* A build file was regenerated from a list whose first entry has no
\* value but a defaultValue, and whose second entry has a value.
C20_Witness ==
    /\ edits > 0
    /\ Len(envVars) = 2
    /\ envVars[1].value = ""
    /\ envVars[1].defaultValue = "postgres://db"
    /\ envVars[2].value # ""

\* The lines of a build file that declare key: ENV key=...
DeclarationsOf(text, key) ==
    LET lines == SplitLines(text)
    IN  {i \in 1..Len(lines) : StartsWith(Trim(lines[i]), "ENV " \o key \o "=")}

\* C19: once the review step has settled, and in the build file handed
\* to onDeploy, every key of the EnvVar list has exactly one ENV
\* declaration line.
C19_OneDeclarationPerKey ==
    /\ view = "open" =>
          \A i \in 1..Len(envVars) :
              Cardinality(DeclarationsOf(dockerfile, envVars[i].key)) = 1
    /\ view = "deployed" =>
          \A i \in 1..Len(envVars) :
              Cardinality(DeclarationsOf(deployArgs.dockerfile, envVars[i].key)) = 1

\* How often a list holds an entry.
Occurrences(list, e) == Cardinality({i \in 1..Len(list) : list[i] = e})

KeysOf(list) == {list[i].key : i \in 1..Len(list)}

\* The first entry of a list with a key the list holds.
FirstOf(list, key) ==
    list[CHOOSE i \in 1..Len(list) :
            list[i].key = key /\ \A k \in 1..(i - 1) : list[k].key # key]

StandardKeys == KeysOf(STANDARD_LLM_VARS)

StandardOf(key) == FirstOf(STANDARD_LLM_VARS, key)

\* An entry of a mandatory key with the fixed default in place of its
\* value.
Backfilled(e) == [e EXCEPT !.value = StandardOf(e.key).value]

C22_PriorityThenAlphabetical ==
    view # "mounting" =>
        \A i, j \in 1..Len(envVars) :
            i < j =>
                LET idxA == PriorityIndex(envVars[i].key)
                    idxB == PriorityIndex(envVars[j].key)
                IN  /\ idxB # 0 => (idxA # 0 /\ idxA <= idxB)
                    /\ (idxA = 0 /\ idxB = 0) =>
                          ~LocaleBefore(envVars[j].key, envVars[i].key)

\* A merged list with priority keys and two other keys.
C22_Witness ==
    /\ view = "open"
    /\ edits = 0
    /\ envVars[1].key = "HOST"
    /\ {"API_TOKEN", "MOTD"} \subseteq KeysOf(envVars)

\* C23: the merge applied to the list and the build file it produced
\* changes neither of them.
C23_MergeIdempotent == [][MergeAgain => UNCHANGED <<envVars, dockerfile>>]_vars

\* C24: in every state of the review step after its mount, no two
\* entries of the list have the same key.
C24_KeysUnique ==
    view # "mounting" =>
        \A i, j \in 1..Len(envVars) : envVars[i].key = envVars[j].key => i = j

\* C25: without the API_KEY no request is made, to the repository host
\* or to the analysis backend; the wizard stays at its first step with
\* nothing selected, analysed or created, and the only error shown is
\* the message the handler threw.
C25_MissingKeyIsFatalBeforeCalls ==
    ~apiKeySet =>
        /\ pc = "idle"
        /\ calls = <<>>
        /\ step = "CREDENTIALS"
        /\ analysis = "null"
        /\ files = <<>>
        /\ \A n \in ProjectNames : remote[n] = "norepo"
        /\ error \in {"null",
                      "System Environment Variable 'API_KEY' is missing. The application cannot start without it."}

\* The credentials form was submitted without the API_KEY.
C25_Witness ==
    /\ ~apiKeySet
    /\ error # "null"

\* The step a fatal error of a step returns the wizard to.
PrecedingStep(s) ==
    CASE s = "CREDENTIALS" -> "CREDENTIALS"
      [] s = "ANALYSIS" -> "SELECT_FOLDER"
      [] s = "DEPLOYING" -> "REVIEW"
      [] OTHER -> "none"

\* C26: a step that sets an error, or that ends a run that threw, shows
\* a message that is not empty and takes the wizard from CREDENTIALS to
\* CREDENTIALS, from ANALYSIS to SELECT_FOLDER and from DEPLOYING to
\* REVIEW, and from no other step; the wizard enters SUCCESS only by a
\* run that returned.
C26_FatalErrorNeverForward ==
    [][/\ ((error' # error /\ error' # "null") \/ (pc = "pushThrown" /\ pc' = "idle")) =>
            /\ error' \notin {"null", ""}
            /\ step' = PrecedingStep(step)
       /\ (step' = "SUCCESS" /\ step # "SUCCESS") =>
            /\ pc = "pushReturned"
            /\ thrown = "none"
            /\ error' = error]_vars

\* Every message a failed deployment shows.
DeploymentFailures ==
    {"Deployment Failed: " \o Thrown(ans, message) :
        ans \in Failures,
        message \in {"Failed to create repository"} \cup
                    {ErrorMessage(at) : at \in {"getRef", "getCommit", "blobDockerfile",
                                                "blobCompose", "tree", "commit", "ref"}}}

\* C27: the step in which the analysis fails starts no call and leaves
\* the run state and the repository host as they are, and the message it
\* shows is an analysis failure, which no failed deployment shows.
C27_AnalysisFailureIsItsOwn ==
    [][(pc = "analyze" /\ pc' = "idle" /\ analysis' = analysis /\ step' # "REVIEW") =>
          /\ calls' = <<>>
          /\ repo' = "none"
          /\ remote' = remote
          /\ StartsWith(error', "Analysis Failed: ")
          /\ error' \notin DeploymentFailures]_vars

\* The backend request was rejected with the text a rejected repository
\* request has, and the wizard is back at the folder selector.
C27_Witness ==
    /\ step = "SELECT_FOLDER"
    /\ pc = "idle"
    /\ error = "Analysis Failed: " \o FetchRejected
    /\ calls = <<>>

\* The run in flight has had its ref update answered ok.
RefUpdated == calls # <<>> /\ Last(calls).op = "ref" /\ Last(calls).res = "ok"

\* C28: a repository URL is put into deployStatus only by a run whose
\* ref update succeeded (the run in flight, or an earlier one that is
\* still in flight), and it is the URL of that run's repository, with
\* step 'finished' and the wizard at SUCCESS; a run whose ref update
\* succeeded does nothing else; and while the wizard is at SUCCESS the
\* status is 'finished' with the URL of a repository whose branch has
\* been written.
C28_UrlIffRefUpdated ==
    /\ [][(deployStatus'.repoUrl # "undefined" /\ deployStatus' # deployStatus) =>
             (/\ \E n \in ProjectNames :
                    /\ (n = repo /\ RefUpdated) \/ n \in background
                    /\ remote'[n] = "newcommit"
                    /\ deployStatus' = [step |-> "finished", progress |-> 100,
                                        repoUrl |-> "url_" \o n]
              /\ step' = "SUCCESS")]_vars
    /\ [][(RefUpdated /\ calls' # calls /\ background' = background) =>
             (deployStatus'.repoUrl = "url_" \o repo /\ step' = "SUCCESS")]_vars
    /\ [](step = "SUCCESS" =>
             (/\ deployStatus.step = "finished"
              /\ \E n \in ProjectNames :
                    /\ deployStatus.repoUrl = "url_" \o n
                    /\ remote[n] \notin {"norepo", "none"}))

\* The entries are the picked files' paths without the folder's name.
Flattened(fileList, entries) ==
    /\ Len(entries) = Len(fileList)
    /\ \E r \in RootFolders :
          \A i \in 1..Len(fileList) :
              /\ fileList[i].webkitRelativePath = r \o "/" \o entries[i].path
              /\ entries[i].path # ""
              /\ Char(entries[i].path, 1) # "/"

\* C29: the entries the selector holds for onFilesSelected, and the
\* files the wizard got from it, are the picked files in their order,
\* each with its path without the root folder's name and its slash, not
\* empty and without a leading slash.
C29_RootFolderStripped ==
    /\ timer # "none" => Flattened(picked, timer)
    /\ (picked # <<>> /\ timer = "none") => Flattened(picked, files)

\* proj/pkg.json and proj/src/index.js have reached the wizard as
\* pkg.json and src/index.js.
C29_Witness ==
    /\ pc = "analyze"
    /\ Len(picked) = 2
    /\ picked[1].webkitRelativePath = "proj/pkg.json"
    /\ picked[2].webkitRelativePath = "proj/src/index.js"
    /\ files[1].path = "pkg.json"
    /\ files[2].path = "src/index.js"

\* C30: a run looks the branch up once, as its first call, and the tip
\* commit at most once, as its second, before any write; the base of the
\* tree it creates and the parent of the commit it creates are the tree
\* of the tip it read and that tip, or none when it read no tip, also
\* when the branch has moved since.
C30_TargetResolvedOnce ==
    calls # <<>> =>
        /\ CallsOf("getRef") = {1}
        /\ CallsOf("getCommit") = (IF calls[1].res = "ok" THEN {2} ELSE {})
        /\ IF calls[1].res = "ok"
             THEN /\ treeArgs.sent => treeArgs.base_tree = TreeOfCommit(calls[2].arg)
                  /\ commitArgs.sent => commitArgs.parents = <<calls[2].arg>>
             ELSE /\ treeArgs.sent => treeArgs.base_tree = "null"
                  /\ commitArgs.sent => commitArgs.parents = <<>>

\* The commit was created on the tip the run had read, after another
\* writer had moved the branch.
C30_Witness ==
    /\ commitArgs.sent
    /\ moved
    /\ calls[2].arg = "init"
    /\ commitArgs.parents = <<"init">>
    /\ remote[repo] = "ext1"

\* The remote operations pushFilesToRepo can issue: two reads and five
\* writes; it has no call that deletes or reverts anything.
RunOps == {"getRef", "getCommit"} \cup WriteOps

\* C31: no remote call is retried or compensated within a run: no two
\* calls of a run have the same operation and target, so each file's blob
\* and each artifact's blob is sent at most once, the ref lookup, the tip
\* lookup, the tree, the commit and the ref update are each sent at most
\* once, and every call is one of the run's forward operations (nothing
\* is deleted or rolled back, after a failure or otherwise).
C31_NoRetryNoRollback ==
    /\ \A i, j \in 1..Len(calls) :
           (calls[i].op = calls[j].op /\ calls[i].arg = calls[j].arg) => i = j
    /\ \A op \in RunOps \ {"artifactBlob", "fileBlob"} : Cardinality(CallsOf(op)) <= 1
    /\ \A i \in CallsOf("artifactBlob") : calls[i].arg \in {"Dockerfile", "docker-compose.yaml"}
    /\ \A i \in CallsOf("fileBlob") :
           \E k \in 1..Len(files) : files[k].path = calls[i].arg /\ ~Skipped(files[k])
    /\ \A i \in 1..Len(calls) : calls[i].op \in RunOps

\* A file's upload failed, the run went on without sending it again and
\* returned, having sent one blob per file.
C31_Witness ==
    /\ pc = "pushReturned"
    /\ \E i \in CallsOf("fileBlob") : calls[i].res \in Failures
    /\ \E k \in 1..Len(files) : fileState[k] = "failed"
    /\ Cardinality(CallsOf("fileBlob")) = Len(files)
    /\ Len(files) = MaxFiles

\* The place of the declarations in a build file without ENV lines: k
\* lines stand before them, k being the first line that contains WORKDIR,
\* else the first that contains FROM, else 0 (the top of the file).
AnchorAt(lines, k) ==
    LET hits(word) == {i \in 1..Len(lines) : Includes(lines[i], word)}
        first(word) == CHOOSE i \in hits(word) : \A j \in hits(word) : i <= j
    IN  IF hits("WORKDIR") # {} THEN k = first("WORKDIR")
        ELSE IF hits("FROM") # {} THEN k = first("FROM")
        ELSE k = 0

\* C32: a regeneration of the build file drops every line that, trimmed,
\* starts with "ENV ", and puts the declarations of the list, as one
\* block in list order, right after the first remaining line that
\* contains WORKDIR, else right after the first that contains FROM, else
\* at the top; the other lines keep their content and order.
C32_DropThenInsertAtAnchor ==
    [][SyncDockerfile =>
        LET kept == SelectSeq(SplitLines(dockerfile),
                              LAMBDA l : ~StartsWith(Trim(l), "ENV "))
            decls == [i \in 1..Len(envVars) |->
                         "ENV " \o envVars[i].key \o "=\"" \o envVars[i].value \o "\""]
        IN  \E k \in 0..Len(kept) :
                /\ AnchorAt(kept, k)
                /\ dockerfile' = JoinLines(SubSeq(kept, 1, k) \o decls
                                             \o SubSeq(kept, k + 1, Len(kept)))]_vars

\* A build file was regenerated once: its two old ENV lines, one of them
\* indented, are gone and the declaration stands right after WORKDIR.
C32_Witness ==
    /\ edits = 1
    /\ envVars = <<[key |-> "API_TOKEN", value |-> "s3cret", defaultValue |-> ""]>>
    /\ dockerfile = "FROM node:18\nWORKDIR /app\nENV API_TOKEN=\"s3cret\"\nCMD npm start"

\* The keys the ENV lines of a build file declare: what stands between
\* "ENV " and the first "=" or blank of the trimmed line.
BuildFileKeys(text) ==
    LET lines == SplitLines(text)
        keyOf(l) ==
            LET t == Trim(l)
                ends == {i \in 5..Len(t) : Char(t, i) \in {"=", " "}}
                stop == IF ends = {} THEN Len(t) + 1
                        ELSE CHOOSE i \in ends : \A j \in ends : i <= j
            IN  SubSeq(t, 5, stop - 1)
    IN  {keyOf(lines[i]) : i \in {k \in 1..Len(lines) : StartsWith(Trim(lines[k]), "ENV ")}}

\* The keys the environment block of a compose file declares.
ComposeKeys(compose) ==
    LET block == EnvironmentBlock(compose)
    IN  {DeclaredKey(block[i]) : i \in {k \in 1..Len(block) : StartsWith(block[k], "      - ")}}

\* C33: the build file and the compose file handed to onDeploy declare
\* the same keys, the keys of the EnvVar list at that moment, whatever
\* edits of the list and of the build file's text came before.
C33_ArtifactsDeclareSameKeys ==
    view = "deployed" =>
        /\ BuildFileKeys(deployArgs.dockerfile) = ComposeKeys(deployArgs.compose)
        /\ ComposeKeys(deployArgs.compose) = KeysOf(envVars)

\* C34: the entries sent to the tree creation name every path once, and
\* the entry of the path of a generated artifact is the generated one,
\* also when the batch holds a file at that path.
C34_TreePathsUnique ==
    treeArgs.sent =>
        /\ \A i, j \in 1..Len(treeArgs.tree) :
               treeArgs.tree[i].path = treeArgs.tree[j].path => i = j
        /\ \A i \in 1..Len(treeArgs.tree) :
               treeArgs.tree[i].path \in {"Dockerfile", "docker-compose.yaml"} =>
                   treeArgs.tree[i].sha = GeneratedSha(treeArgs.tree[i].path)

\* pushFilesToRepo is suspended at one of its awaits.
PushInFlight ==
    pc \in {"getRef", "getCommit", "dockerBlob", "composeBlob", "fileRead", "fileBlob",
            "tree", "commit", "ref"}

\* C35: every run of pushFilesToRepo ends, when each of its requests and
\* file reads settles: it returns, having reported 100 last, or throws.
C35_RunTerminates ==
    /\ PushInFlight ~> (pc \in {"pushReturned", "pushThrown"})
    /\ [](pc = "pushReturned" => (reported # <<>> /\ Last(reported) = 100))

\* A run over a batch of MaxFiles files, none of them skipped and each
\* read and uploaded, has returned.
C35_Witness ==
    /\ pc = "pushReturned"
    /\ Len(files) = MaxFiles
    /\ \A k \in 1..Len(files) : fileState[k] = "uploaded"
    /\ Last(reported) = 100

\* C36: a run on a repository without the branch, whose commit has been
\* created and whose ref update has been answered by the host, has
\* returned, and the branch exists and points at the new commit, which
\* has no parent.
C36_AbsentBranchCreated ==
    (/\ refAtStart = "none"
     /\ calls # <<>>
     /\ Last(calls).op = "ref"
     /\ Last(calls).res \notin {"pending", "net"}) =>
        /\ pc = "pushReturned"
        /\ remote[repo] = "newcommit"
        /\ commitArgs.parents = <<>>

\* C37: a deployment can be run again after it failed: when the host
\* answers the createRepository of a handleDeploy whose project has its
\* repository from an earlier run, the run goes on to the ref lookup in
\* that repository; and a handleDeploy whose createRepository failed
\* makes no call of pushFilesToRepo.
C37_RerunReachesSync ==
    /\ [][(/\ pc = "createRepository"
           /\ pc' # pc
           /\ remote[analysis] # "norepo"
           /\ error' # "Deployment Failed: " \o FetchRejected) =>
              (pc' = "getRef" /\ repo' = analysis)]_vars
    /\ [][(pc = "createRepository" /\ pc' = "idle") =>
              (calls' = <<>> /\ step' = "REVIEW" /\ error' # "null")]_vars

\* C38: the error shown is the one of the latest operation: the step
\* that takes the wizard to SELECT_FOLDER on a valid token, to REVIEW on
\* an analysis result, or to SUCCESS on a run that returned, leaves no
\* error.
C38_SuccessClearsError ==
    /\ [][(pc = "validateToken" /\ step' = "SELECT_FOLDER") => (error' = "null")]_vars
    /\ [][(pc = "analyze" /\ step' = "REVIEW") => (error' = "null")]_vars
    /\ [][(pc = "pushReturned" /\ step' = "SUCCESS") => (error' = "null")]_vars

====
